---------------------------- MODULE Spec2Model ----------------------------
(***************************************************************************)
(* Binary search tree of src/algorithms_revision_snippets.py               *)
(* (TreeNode, BinarySearchTree: insert_value, find_value,                  *)
(* get_inorder_values).                                                    *)
(*                                                                         *)
(* The heap of TreeNode objects is a sequence of records; a reference is   *)
(* the index of the object in the heap and None is 0.  Objects are never   *)
(* freed, so the index of a node is also the rank of its creation.         *)
(*                                                                         *)
(* Keys are Python values of two types, int and str: <<"int", i>> and      *)
(* <<"str", i>>.  Within one type the keys are ordered by i; between the   *)
(* two types `==` is False and `<` raises TypeError.                       *)
(***************************************************************************)
EXTENDS Integers, Sequences, FiniteSets

\* ------------------------------------------------------------------ bounds
MaxNodes == 5
MaxKey == 3
MaxStr == 2
MaxOrderLen == 4
MaxSnapNodes == 3
MaxAsc == 5
MaxStepNodes == 3

None == 0

IntKeys == {<<"int", i>> : i \in 1..MaxKey}
StrKeys == {<<"str", i>> : i \in 1..MaxStr}
Keys == IntKeys \cup StrKeys
NoArg == <<"none", 0>>

\* root_node, heap: the tree; history: the keys of the insert_value calls that
\* returned; op: the last call and its outcome; held: the list the caller
\* keeps from its last get_inorder_values() call; todo: the keys a script has
\* still to insert; run: the call in progress when calls are followed one
\* recursive invocation at a time
VARIABLES root_node, heap, history, op, held, todo, run

\* race: two callers of insert_value followed one statement at a time;
\* search: a binary_search call; sort: a merge_sort or merge call;
\* list: a LinkedList; dlist: a DoublyLinkedList
VARIABLES race, search, sort, list, dlist

\* the state of the programs other than the one a specification follows
aux == <<race, search, sort, list, dlist>>

vars == <<root_node, heap, history, op, held, todo, run, aux>>

\* no list kept yet
NoHeld == [taken |-> FALSE, values |-> <<>>, at |-> 0, since |-> -1]

\* no call in progress
Idle == [name |-> "idle", status |-> "returned", arg |-> NoArg, cur |-> None,
         stack |-> <<>>, visits |-> <<>>, result |-> <<>>, found |-> FALSE]

\* the two callers of the interleaved insert_value calls
Threads == {"a", "b"}

\* a caller that is in no call
IdleThread == [pc |-> "idle", arg |-> NoArg, cur |-> None]

\* no caller in a call, no interleaving seen
NoRace == [thr |-> [t \in Threads |-> IdleThread], raced |-> FALSE]

\* binary_search not called
NoSearch == [status |-> "idle", arr |-> <<>>, target |-> 0, low |-> 0,
             high |-> -1, steps |-> 0, result |-> -1]

\* merge_sort and merge not called
NoSort == [call |-> "idle", arr |-> <<>>, left |-> <<>>, right |-> <<>>,
           out |-> <<>>]

\* LinkedList(): head is None, no Node exists
NoList == [head |-> None, nodes |-> <<>>, appended |-> <<>>, printed |-> <<>>]

\* DoublyLinkedList(): head is None, no DNode exists
NoDList == [head |-> None, nodes |-> <<>>, appended |-> <<>>,
            prepended |-> <<>>, printed |-> <<>>]

\* ------------------------------------------------- Python's comparisons
\* a < b raises TypeError when the operands are of different types
LtRaises(a, b) == a[1] # b[1]

\* a < b, defined when it does not raise
Lt(a, b) == a[2] < b[2]

\* a == b never raises; values of different types are unequal
Eq(a, b) == a = b

\* ---------------------------------------------------------------- TreeNode
TreeNode(value) == [value |-> value, left_child |-> None, right_child |-> None]

\* ------------------------------------------------------- BinarySearchTree
\* _insert_recursive with the test value <= current_node.value: ties go left
RECURSIVE _insert_recursive_ties_left(_, _, _)
_insert_recursive_ties_left(h, current_node, value) ==
    IF LtRaises(value, h[current_node].value)
    THEN [exc |-> TRUE, heap |-> h]
    ELSE IF Lt(value, h[current_node].value) \/ Eq(value, h[current_node].value)
    THEN IF h[current_node].left_child # None
         THEN _insert_recursive_ties_left(h, h[current_node].left_child, value)
         ELSE [exc |-> FALSE,
               heap |-> Append([h EXCEPT ![current_node].left_child = Len(h) + 1],
                               TreeNode(value))]
    ELSE IF h[current_node].right_child # None
         THEN _insert_recursive_ties_left(h, h[current_node].right_child, value)
         ELSE [exc |-> FALSE,
               heap |-> Append([h EXCEPT ![current_node].right_child = Len(h) + 1],
                               TreeNode(value))]

\* _insert_recursive returning at once on a key equal to current_node.value
RECURSIVE _insert_recursive_no_duplicates(_, _, _)
_insert_recursive_no_duplicates(h, current_node, value) ==
    IF Eq(value, h[current_node].value)
    THEN [exc |-> FALSE, heap |-> h]
    ELSE IF LtRaises(value, h[current_node].value)
    THEN [exc |-> TRUE, heap |-> h]
    ELSE IF Lt(value, h[current_node].value)
    THEN IF h[current_node].left_child # None
         THEN _insert_recursive_no_duplicates(h, h[current_node].left_child, value)
         ELSE [exc |-> FALSE,
               heap |-> Append([h EXCEPT ![current_node].left_child = Len(h) + 1],
                               TreeNode(value))]
    ELSE IF h[current_node].right_child # None
         THEN _insert_recursive_no_duplicates(h, h[current_node].right_child, value)
         ELSE [exc |-> FALSE,
               heap |-> Append([h EXCEPT ![current_node].right_child = Len(h) + 1],
                               TreeNode(value))]

\* _insert_recursive without the descent on the left: a smaller key always
\* replaces the left child
RECURSIVE _insert_recursive_overwrite_left(_, _, _)
_insert_recursive_overwrite_left(h, current_node, value) ==
    IF LtRaises(value, h[current_node].value)
    THEN [exc |-> TRUE, heap |-> h]
    ELSE IF Lt(value, h[current_node].value)
    THEN [exc |-> FALSE,
          heap |-> Append([h EXCEPT ![current_node].left_child = Len(h) + 1],
                          TreeNode(value))]
    ELSE IF h[current_node].right_child # None
         THEN _insert_recursive_overwrite_left(h, h[current_node].right_child, value)
         ELSE [exc |-> FALSE,
               heap |-> Append([h EXCEPT ![current_node].right_child = Len(h) + 1],
                               TreeNode(value))]

\* _insert_recursive taking a key it cannot order as not smaller, without raising
RECURSIVE _insert_recursive_unordered_right(_, _, _)
_insert_recursive_unordered_right(h, current_node, value) ==
    IF ~LtRaises(value, h[current_node].value) /\ Lt(value, h[current_node].value)
    THEN IF h[current_node].left_child # None
         THEN _insert_recursive_unordered_right(h, h[current_node].left_child, value)
         ELSE [exc |-> FALSE,
               heap |-> Append([h EXCEPT ![current_node].left_child = Len(h) + 1],
                               TreeNode(value))]
    ELSE IF h[current_node].right_child # None
         THEN _insert_recursive_unordered_right(h, h[current_node].right_child, value)
         ELSE [exc |-> FALSE,
               heap |-> Append([h EXCEPT ![current_node].right_child = Len(h) + 1],
                               TreeNode(value))]

\* _insert_recursive attaching the new node on the right to both child slots
RECURSIVE _insert_recursive_both_slots(_, _, _)
_insert_recursive_both_slots(h, current_node, value) ==
    IF LtRaises(value, h[current_node].value)
    THEN [exc |-> TRUE, heap |-> h]
    ELSE IF Lt(value, h[current_node].value)
    THEN IF h[current_node].left_child # None
         THEN _insert_recursive_both_slots(h, h[current_node].left_child, value)
         ELSE [exc |-> FALSE,
               heap |-> Append([h EXCEPT ![current_node].left_child = Len(h) + 1],
                               TreeNode(value))]
    ELSE IF h[current_node].right_child # None
         THEN _insert_recursive_both_slots(h, h[current_node].right_child, value)
         ELSE [exc |-> FALSE,
               heap |-> Append([h EXCEPT ![current_node].right_child = Len(h) + 1,
                                         ![current_node].left_child =
                                             IF @ = None THEN Len(h) + 1 ELSE @],
                               TreeNode(value))]

\* _insert_recursive(current_node, value) on heap h: the heap it leaves and
\* whether it raised.
RECURSIVE _insert_recursive(_, _, _)
_insert_recursive(h, current_node, value) ==
    IF LtRaises(value, h[current_node].value)
    THEN [exc |-> TRUE, heap |-> h]
    ELSE IF Lt(value, h[current_node].value)
    THEN IF h[current_node].left_child # None
         THEN _insert_recursive(h, h[current_node].left_child, value)
         ELSE [exc |-> FALSE,
               heap |-> Append([h EXCEPT ![current_node].left_child = Len(h) + 1],
                               TreeNode(value))]
    ELSE IF h[current_node].right_child # None
         THEN _insert_recursive(h, h[current_node].right_child, value)
         ELSE [exc |-> FALSE,
               heap |-> Append([h EXCEPT ![current_node].right_child = Len(h) + 1],
                               TreeNode(value))]

\* insert_value without the test of root_node: the new node is always the root
insert_value_new_root(root, h, value) ==
    [exc |-> FALSE, root_node |-> Len(h) + 1, heap |-> Append(h, TreeNode(value))]

\* insert_value(value) on the tree (root, h)
insert_value(root, h, value) ==
    IF root = None
    THEN [exc |-> FALSE, root_node |-> Len(h) + 1, heap |-> Append(h, TreeNode(value))]
    ELSE LET r == _insert_recursive(h, root, value)
         IN  [exc |-> r.exc, root_node |-> root, heap |-> r.heap]

\* _find_recursive with the two descents exchanged
RECURSIVE _find_recursive_swapped(_, _, _)
_find_recursive_swapped(h, current_node, value) ==
    IF current_node = None
    THEN [exc |-> FALSE, found |-> FALSE]
    ELSE IF Eq(value, h[current_node].value)
    THEN [exc |-> FALSE, found |-> TRUE]
    ELSE IF LtRaises(value, h[current_node].value)
    THEN [exc |-> TRUE, found |-> FALSE]
    ELSE IF Lt(value, h[current_node].value)
    THEN _find_recursive_swapped(h, h[current_node].right_child, value)
    ELSE _find_recursive_swapped(h, h[current_node].left_child, value)

\* _find_recursive returning True on an absent node
RECURSIVE _find_recursive_none_true(_, _, _)
_find_recursive_none_true(h, current_node, value) ==
    IF current_node = None
    THEN [exc |-> FALSE, found |-> TRUE]
    ELSE IF Eq(value, h[current_node].value)
    THEN [exc |-> FALSE, found |-> TRUE]
    ELSE IF LtRaises(value, h[current_node].value)
    THEN [exc |-> TRUE, found |-> FALSE]
    ELSE IF Lt(value, h[current_node].value)
    THEN _find_recursive_none_true(h, h[current_node].left_child, value)
    ELSE _find_recursive_none_true(h, h[current_node].right_child, value)

\* _find_recursive(current_node, value): the value returned and whether it raised
RECURSIVE _find_recursive(_, _, _)
_find_recursive(h, current_node, value) ==
    IF current_node = None
    THEN [exc |-> FALSE, found |-> FALSE]
    ELSE IF Eq(value, h[current_node].value)
    THEN [exc |-> FALSE, found |-> TRUE]
    ELSE IF LtRaises(value, h[current_node].value)
    THEN [exc |-> TRUE, found |-> FALSE]
    ELSE IF Lt(value, h[current_node].value)
    THEN _find_recursive(h, h[current_node].left_child, value)
    ELSE _find_recursive(h, h[current_node].right_child, value)

find_value(root, h, value) == _find_recursive(h, root, value)

\* _inorder_traversal appending the node's key before the left subtree
RECURSIVE _inorder_traversal_preorder(_, _, _)
_inorder_traversal_preorder(h, current_node, result) ==
    IF current_node # None
    THEN _inorder_traversal_preorder(h, h[current_node].right_child,
             _inorder_traversal_preorder(h, h[current_node].left_child,
                 Append(result, h[current_node].value)))
    ELSE result

\* _inorder_traversal(current_node, result): result after the call
RECURSIVE _inorder_traversal(_, _, _)
_inorder_traversal(h, current_node, result) ==
    IF current_node # None
    THEN _inorder_traversal(h, h[current_node].right_child,
             Append(_inorder_traversal(h, h[current_node].left_child, result),
                    h[current_node].value))
    ELSE result

get_inorder_values(root, h) == _inorder_traversal(h, root, <<>>)

\* ----------------------------------------------------------------- actions
\* tree.insert_value(v); history records the keys of the calls that returned
CallInsertValue(v) ==
    /\ Len(heap) < MaxNodes
    /\ LET r == insert_value(root_node, heap, v)
       IN  /\ root_node' = r.root_node
           /\ heap' = r.heap
           /\ history' = IF r.exc THEN history ELSE Append(history, v)
           /\ op' = [name |-> "insert", arg |-> v, exc |-> r.exc,
                     found |-> FALSE, values |-> <<>>]

\* find_value adding the key to the tree when it is not found
CallFindValue_inserting(v) ==
    LET r == find_value(root_node, heap, v)
        i == insert_value(root_node, heap, v)
    IN  /\ op' = [name |-> "find", arg |-> v, exc |-> r.exc,
                  found |-> r.found, values |-> <<>>]
        /\ IF ~r.exc /\ ~r.found /\ Len(heap) < MaxNodes
           THEN root_node' = i.root_node /\ heap' = i.heap
           ELSE UNCHANGED <<root_node, heap>>
        /\ UNCHANGED history

\* tree.find_value(v)
CallFindValue(v) ==
    /\ LET r == find_value(root_node, heap, v)
       IN  op' = [name |-> "find", arg |-> v, exc |-> r.exc,
                  found |-> r.found, values |-> <<>>]
    /\ UNCHANGED <<root_node, heap, history>>

\* tree.get_inorder_values()
CallGetInorderValues ==
    /\ op' = [name |-> "inorder", arg |-> NoArg, exc |-> FALSE,
              found |-> FALSE, values |-> get_inorder_values(root_node, heap)]
    /\ UNCHANGED <<root_node, heap, history>>

\* BinarySearchTree(): no root, no node
NewTree ==
    /\ root_node = None
    /\ heap = <<>>
    /\ history = <<>>
    /\ op = [name |-> "new", arg |-> NoArg, exc |-> FALSE,
             found |-> FALSE, values |-> <<>>]
    /\ held = NoHeld
    /\ run = Idle

\* the other programs have not started
AuxIdle ==
    /\ race = NoRace
    /\ search = NoSearch
    /\ sort = NoSort
    /\ list = NoList
    /\ dlist = NoDList

Init == NewTree /\ todo = <<>> /\ AuxIdle

Next ==
    \/ \E v \in Keys : CallInsertValue(v) /\ UNCHANGED <<held, todo, run, aux>>
    \/ \E v \in Keys : CallFindValue(v) /\ UNCHANGED <<held, todo, run, aux>>
    \/ CallGetInorderValues /\ UNCHANGED <<held, todo, run, aux>>

Spec == Init /\ [][Next]_vars

\* insert_value calls only, on trees of at most MaxOrderLen nodes
NextOrder ==
    \E v \in Keys : /\ Len(heap) < MaxOrderLen
                    /\ CallInsertValue(v)
                    /\ UNCHANGED <<held, todo, run, aux>>

SpecOrder == Init /\ [][NextOrder]_vars

\* ------------------------------------- a caller that keeps the returned list
\* insert_value writing the new traversal into the list the caller holds
SnapInsertValue_live_view(v) ==
    /\ Len(heap) < MaxSnapNodes
    /\ CallInsertValue(v)
    /\ held' = IF held.taken
               THEN [held EXCEPT !.values = get_inorder_values(root_node', heap')]
               ELSE held
    /\ UNCHANGED <<todo, run, aux>>

\* tree.insert_value(v) while the caller holds a list returned earlier: the
\* call has no reference to that list
SnapInsertValue(v) ==
    /\ Len(heap) < MaxSnapNodes
    /\ CallInsertValue(v)
    /\ UNCHANGED <<held, todo, run, aux>>

SnapFindValue(v) == CallFindValue(v) /\ UNCHANGED <<held, todo, run, aux>>

\* get_inorder_values with one result list shared by all calls, never emptied
SnapGetInorderValues_shared_result ==
    /\ op' = [name |-> "inorder", arg |-> NoArg, exc |-> FALSE, found |-> FALSE,
              values |-> _inorder_traversal(heap, root_node, held.values)]
    /\ held' = [taken |-> TRUE, values |-> op'.values, at |-> Len(history),
                since |-> IF held.taken THEN Len(history) - held.at ELSE -1]
    /\ UNCHANGED <<root_node, heap, history, todo, run, aux>>

\* values = tree.get_inorder_values(): the caller keeps the list returned,
\* a list created by the call (result = []); at is the number of inserts so
\* far, since the number of inserts after the list kept before (-1: none kept)
SnapGetInorderValues ==
    /\ CallGetInorderValues
    /\ held' = [taken |-> TRUE, values |-> op'.values, at |-> Len(history),
                since |-> IF held.taken THEN Len(history) - held.at ELSE -1]
    /\ UNCHANGED <<todo, run, aux>>

NextSnap ==
    \/ \E v \in Keys : SnapInsertValue(v)
    \/ \E v \in Keys : SnapFindValue(v)
    \/ SnapGetInorderValues

SpecSnap == Init /\ [][NextSnap]_vars

\* ------------------------------------------------- a script of insert calls
\* numbers_to_add = [8, 3, 10, 1, 6, 14, 4, 7]
numbers_to_add ==
    <<<<"int", 8>>, <<"int", 3>>, <<"int", 10>>, <<"int", 1>>,
      <<"int", 6>>, <<"int", 14>>, <<"int", 4>>, <<"int", 7>>>>

\* the largest of numbers_to_add: the scripts look up the keys 1..MaxDemoKey
MaxDemoKey == 14

ScriptKeys == {<<"int", i>> : i \in 1..MaxDemoKey}

\* the int keys of S in ascending order
RECURSIVE Ascending(_)
Ascending(S) ==
    IF S = {}
    THEN <<>>
    ELSE LET m == CHOOSE x \in S : \A y \in S : y <= x
         IN  Append(Ascending(S \ {m}), <<"int", m>>)

\* the lists a script inserts: numbers_to_add, and every strictly ascending
\* list of keys among 1..MaxAsc
Scripts == {numbers_to_add} \cup {Ascending(S) : S \in SUBSET (1..MaxAsc)}

InitScript == NewTree /\ todo \in Scripts /\ AuxIdle

\* for number in numbers_to_add: tree.insert_value(number), one iteration
ScriptInsertValue ==
    /\ todo # <<>>
    /\ LET r == insert_value(root_node, heap, Head(todo))
       IN  /\ root_node' = r.root_node
           /\ heap' = r.heap
           /\ history' = IF r.exc THEN history ELSE Append(history, Head(todo))
           /\ op' = [name |-> "insert", arg |-> Head(todo), exc |-> r.exc,
                     found |-> FALSE, values |-> <<>>]
    /\ todo' = Tail(todo)
    /\ UNCHANGED <<held, run, aux>>

NextScript ==
    \/ ScriptInsertValue
    \/ \E v \in ScriptKeys : CallFindValue(v) /\ UNCHANGED <<held, todo, run, aux>>
    \/ CallGetInorderValues /\ UNCHANGED <<held, todo, run, aux>>

SpecScript == InitScript /\ [][NextScript]_vars

\* ------------------------------- calls followed one invocation at a time
\* run.cur is the current_node of the pending invocation of _insert_recursive
\* or _find_recursive; run.stack holds the pending invocations of
\* _inorder_traversal, each with the place it has reached; run.visits lists
\* the nodes whose fields the call has read so far.

\* tree.insert_value(v): the test of root_node and, on an empty tree, the write
BeginInsertValue(v) ==
    /\ run.status # "running"
    /\ Len(heap) < MaxStepNodes
    /\ IF root_node = None
       THEN /\ root_node' = Len(heap) + 1
            /\ heap' = Append(heap, TreeNode(v))
            /\ history' = Append(history, v)
            /\ run' = [Idle EXCEPT !.name = "insert", !.arg = v]
       ELSE /\ run' = [Idle EXCEPT !.name = "insert", !.arg = v,
                                   !.status = "running", !.cur = root_node]
            /\ UNCHANGED <<root_node, heap, history>>
    /\ UNCHANGED <<op, held, todo, aux>>

\* one invocation of _insert_recursive(run.cur, run.arg)
StepInsert ==
    /\ run.name = "insert" /\ run.status = "running"
    /\ LET n == run.cur
           v == run.arg
           seen == [run EXCEPT !.visits = Append(@, n)]
       IN  IF LtRaises(v, heap[n].value)
           THEN /\ run' = [seen EXCEPT !.status = "raised"]
                /\ UNCHANGED <<heap, history>>
           ELSE IF Lt(v, heap[n].value)
           THEN IF heap[n].left_child # None
                THEN /\ run' = [seen EXCEPT !.cur = heap[n].left_child]
                     /\ UNCHANGED <<heap, history>>
                ELSE /\ heap' = Append([heap EXCEPT ![n].left_child = Len(heap) + 1],
                                       TreeNode(v))
                     /\ history' = Append(history, v)
                     /\ run' = [seen EXCEPT !.status = "returned"]
           ELSE IF heap[n].right_child # None
                THEN /\ run' = [seen EXCEPT !.cur = heap[n].right_child]
                     /\ UNCHANGED <<heap, history>>
                ELSE /\ heap' = Append([heap EXCEPT ![n].right_child = Len(heap) + 1],
                                       TreeNode(v))
                     /\ history' = Append(history, v)
                     /\ run' = [seen EXCEPT !.status = "returned"]
    /\ UNCHANGED <<root_node, op, held, todo, aux>>

\* tree.find_value(v): the call of _find_recursive(self.root_node, v)
BeginFindValue(v) ==
    /\ run.status # "running"
    /\ run' = [Idle EXCEPT !.name = "find", !.arg = v,
                           !.status = "running", !.cur = root_node]
    /\ UNCHANGED <<root_node, heap, history, op, held, todo, aux>>

\* _find_recursive without the test of current_node against None: reading
\* the value of None raises
StepFind_no_none_test ==
    /\ run.name = "find" /\ run.status = "running"
    /\ LET n == run.cur
           v == run.arg
           seen == [run EXCEPT !.visits = Append(@, n)]
       IN  IF n = None
           THEN run' = [run EXCEPT !.status = "raised"]
           ELSE IF Eq(v, heap[n].value)
           THEN run' = [seen EXCEPT !.status = "returned", !.found = TRUE]
           ELSE IF LtRaises(v, heap[n].value)
           THEN run' = [seen EXCEPT !.status = "raised"]
           ELSE IF Lt(v, heap[n].value)
           THEN run' = [seen EXCEPT !.cur = heap[n].left_child]
           ELSE run' = [seen EXCEPT !.cur = heap[n].right_child]
    /\ UNCHANGED <<root_node, heap, history, op, held, todo, aux>>

\* one invocation of _find_recursive(run.cur, run.arg)
StepFind ==
    /\ run.name = "find" /\ run.status = "running"
    /\ LET n == run.cur
           v == run.arg
           seen == [run EXCEPT !.visits = Append(@, n)]
       IN  IF n = None
           THEN run' = [run EXCEPT !.status = "returned", !.found = FALSE]
           ELSE IF Eq(v, heap[n].value)
           THEN run' = [seen EXCEPT !.status = "returned", !.found = TRUE]
           ELSE IF LtRaises(v, heap[n].value)
           THEN run' = [seen EXCEPT !.status = "raised"]
           ELSE IF Lt(v, heap[n].value)
           THEN run' = [seen EXCEPT !.cur = heap[n].left_child]
           ELSE run' = [seen EXCEPT !.cur = heap[n].right_child]
    /\ UNCHANGED <<root_node, heap, history, op, held, todo, aux>>

\* tree.get_inorder_values(): result = [] and the call of
\* _inorder_traversal(self.root_node, result)
BeginGetInorderValues ==
    /\ run.status # "running"
    /\ run' = [Idle EXCEPT !.name = "inorder", !.status = "running",
                           !.stack = <<[node |-> root_node, at |-> "test"]>>]
    /\ UNCHANGED <<root_node, heap, history, op, held, todo, aux>>

\* _inorder_traversal calling itself on the left child a second time instead
\* of on the right child
StepInorder_left_twice ==
    /\ run.name = "inorder" /\ run.status = "running"
    /\ LET top == Len(run.stack)
           f == run.stack[top]
           popped == SubSeq(run.stack, 1, top - 1)
           back == [run EXCEPT !.stack = popped,
                               !.status = IF popped = <<>> THEN "returned" ELSE @]
       IN  IF f.at = "test"
           THEN IF f.node # None
                THEN run' = [run EXCEPT
                               !.visits = Append(@, f.node),
                               !.stack = Append([@ EXCEPT ![top].at = "append"],
                                   [node |-> heap[f.node].left_child, at |-> "test"])]
                ELSE run' = back
           ELSE IF f.at = "append"
           THEN run' = [run EXCEPT
                          !.result = Append(@, heap[f.node].value),
                          !.stack = Append([@ EXCEPT ![top].at = "return"],
                              [node |-> heap[f.node].left_child, at |-> "test"])]
           ELSE run' = back
    /\ UNCHANGED <<root_node, heap, history, op, held, todo, aux>>

\* one step of the innermost invocation of _inorder_traversal: the test of
\* current_node and the call on the left child; the append and the call on
\* the right child; the return
StepInorder ==
    /\ run.name = "inorder" /\ run.status = "running"
    /\ LET top == Len(run.stack)
           f == run.stack[top]
           popped == SubSeq(run.stack, 1, top - 1)
           back == [run EXCEPT !.stack = popped,
                               !.status = IF popped = <<>> THEN "returned" ELSE @]
       IN  IF f.at = "test"
           THEN IF f.node # None
                THEN run' = [run EXCEPT
                               !.visits = Append(@, f.node),
                               !.stack = Append([@ EXCEPT ![top].at = "append"],
                                   [node |-> heap[f.node].left_child, at |-> "test"])]
                ELSE run' = back
           ELSE IF f.at = "append"
           THEN run' = [run EXCEPT
                          !.result = Append(@, heap[f.node].value),
                          !.stack = Append([@ EXCEPT ![top].at = "return"],
                              [node |-> heap[f.node].right_child, at |-> "test"])]
           ELSE run' = back
    /\ UNCHANGED <<root_node, heap, history, op, held, todo, aux>>

\* the call in progress goes on
StepCall == StepInsert \/ StepFind \/ StepInorder

NextSteps ==
    \/ \E v \in Keys : BeginInsertValue(v)
    \/ \E v \in Keys : BeginFindValue(v)
    \/ BeginGetInorderValues
    \/ StepInsert
    \/ StepFind
    \/ StepInorder

\* one operation at a time, each run to completion: a call in progress is
\* not suspended for ever
SpecSteps == Init /\ [][NextSteps]_vars /\ WF_vars(StepCall)

\* ------------------------------------------------ reading the node graph
Range(s) == {s[i] : i \in DOMAIN s}

Count(s, k) == Cardinality({i \in DOMAIN s : s[i] = k})

Children(h, n) == {h[n].left_child, h[n].right_child} \ {None}

\* the nodes reached from the nodes of S in at most fuel steps along child links
RECURSIVE ReachFrom(_, _, _)
ReachFrom(h, S, fuel) ==
    IF fuel = 0
    THEN S
    ELSE ReachFrom(h, S \cup UNION {Children(h, n) : n \in S}, fuel - 1)

\* the nodes of the subtree hanging from reference n
Subtree(h, n) == IF n = None THEN {} ELSE ReachFrom(h, {n}, Len(h))

\* the nodes in the order the in-order traversal visits them
RECURSIVE InorderNodes(_, _, _)
InorderNodes(h, n, fuel) ==
    IF n = None \/ fuel = 0
    THEN <<>>
    ELSE InorderNodes(h, h[n].left_child, fuel - 1) \o <<n>>
         \o InorderNodes(h, h[n].right_child, fuel - 1)

NonDecreasing(s) ==
    \A i \in 1..(Len(s) - 1) : ~LtRaises(s[i + 1], s[i]) /\ ~Lt(s[i + 1], s[i])

\* ------------------------------------------------------------------ claims
\* C1: in every tree reachable by insert_value calls, for every node N every
\* key in N's left subtree is strictly less than N's key and every key in N's
\* right subtree is greater than or equal to N's key.
C1_BSTProperty ==
    \A n \in 1..Len(heap) :
        /\ \A m \in Subtree(heap, heap[n].left_child) :
              /\ ~LtRaises(heap[m].value, heap[n].value)
              /\ Lt(heap[m].value, heap[n].value)
        /\ \A m \in Subtree(heap, heap[n].right_child) :
              /\ ~LtRaises(heap[m].value, heap[n].value)
              /\ ~Lt(heap[m].value, heap[n].value)

\* a node with two or more nodes on its left and an equal key on its right
C1_Witness ==
    \E n \in 1..Len(heap) :
        /\ Cardinality(Subtree(heap, heap[n].left_child)) >= 2
        /\ \E m \in Subtree(heap, heap[n].right_child) : heap[m].value = heap[n].value

\* C2: for every sequence of inserted keys, repeated keys included,
\* get_inorder_values() returns a sequence in non-decreasing order.
C2_InorderNonDecreasing ==
    /\ NonDecreasing(get_inorder_values(root_node, heap))
    /\ op.name = "inorder" => NonDecreasing(op.values)

\* get_inorder_values() has returned four or more keys, one of them repeated,
\* that were not inserted in sorted order
C2_Witness ==
    /\ op.name = "inorder"
    /\ Len(op.values) >= 4
    /\ \E k \in Keys : Count(op.values, k) >= 2
    /\ ~NonDecreasing(history)

\* C3: find_value(k) returns True for every inserted key k and False for every
\* key k, comparable with the stored keys, that was never inserted; it returns
\* True exactly when k occurs in get_inorder_values().
C3_Membership ==
    /\ \A k \in Keys :
          LET r == find_value(root_node, heap, k)
          IN  /\ k \in Range(history) => ~r.exc /\ r.found
              /\ (/\ k \notin Range(history)
                  /\ \A n \in 1..Len(heap) : ~LtRaises(k, heap[n].value))
                 => ~r.exc /\ ~r.found
              /\ (~r.exc /\ r.found) <=> k \in Range(get_inorder_values(root_node, heap))
    /\ op.name = "find" /\ ~op.exc => (op.found <=> op.arg \in Range(history))

\* find_value has returned False for a key never inserted, on a tree of three
\* or more nodes whose root has both children
C3_Witness ==
    /\ op.name = "find" /\ ~op.exc /\ ~op.found
    /\ Len(heap) >= 3
    /\ heap[root_node].left_child # None
    /\ heap[root_node].right_child # None
    /\ \E k \in Range(history) : Lt(op.arg, k)
    /\ \E k \in Range(history) : Lt(k, op.arg)

\* C4: after n insert_value calls get_inorder_values() has length n and is a
\* permutation of the multiset of inserted keys: every insert adds exactly one
\* node and the traversal visits every node exactly once.
C4_NoKeyLostOrInvented ==
    LET vals == get_inorder_values(root_node, heap)
        ids == InorderNodes(heap, root_node, Len(heap))
    IN  /\ Len(vals) = Len(history)
        /\ \A k \in Keys : Count(vals, k) = Count(history, k)
        /\ Len(heap) = Len(history)
        /\ Len(ids) = Len(heap)
        /\ Range(ids) = 1..Len(heap)
        /\ op.name = "inorder" => op.values = vals

\* get_inorder_values() has returned the keys of a full tree with a repeated key
C4_Witness ==
    /\ op.name = "inorder"
    /\ Len(op.values) = MaxNodes
    /\ \E k \in Keys : Count(history, k) >= 2
    /\ Cardinality(Range(history)) >= 3

\* the permutations of 1..n, for every length of history SpecOrder reaches
Perms ==
    [n \in 0..MaxOrderLen |->
        {p \in [1..n -> 1..n] : \A i, j \in 1..n : i # j => p[i] # p[j]}]

\* the tree left by inserting the keys of s, in order, into an empty tree
RECURSIVE BuildTree(_)
BuildTree(s) ==
    IF s = <<>>
    THEN [root_node |-> None, heap |-> <<>>]
    ELSE LET t == BuildTree(SubSeq(s, 1, Len(s) - 1))
             r == insert_value(t.root_node, t.heap, s[Len(s)])
         IN  [root_node |-> r.root_node, heap |-> r.heap]

Permuted(s, p) == [i \in 1..Len(s) |-> s[p[i]]]

\* the child links of a heap, without the keys
Shape(h) == [n \in 1..Len(h) |-> <<h[n].left_child, h[n].right_child>>]

\* C5: for any multiset of keys and any two permutations of it used as
\* insertion orders, the two trees return identical get_inorder_values()
\* sequences and identical find_value answers for every key.
C5_OrderIndependence ==
    \A p \in Perms[Len(history)] :
        LET t == BuildTree(Permuted(history, p))
        IN  /\ get_inorder_values(t.root_node, t.heap)
                  = get_inorder_values(root_node, heap)
            /\ \A k \in Keys :
                  find_value(t.root_node, t.heap, k) = find_value(root_node, heap, k)

\* keys with a repeated one whose other insertion order gives a tree of another shape
C5_Witness ==
    /\ Len(history) >= 3
    /\ \E k \in Keys : Count(history, k) >= 2
    /\ \E p \in Perms[Len(history)] :
          Shape(BuildTree(Permuted(history, p)).heap) # Shape(heap)

\* the nodes whose keys a call with key v is compared with, from node n down
RECURSIVE SearchPath(_, _, _, _)
SearchPath(h, n, v, fuel) ==
    IF n = None \/ fuel = 0
    THEN {}
    ELSE {n} \cup
         IF LtRaises(v, h[n].value)
         THEN {}
         ELSE SearchPath(h, IF Lt(v, h[n].value) THEN h[n].left_child
                                                 ELSE h[n].right_child,
                         v, fuel - 1)

\* the slots (node, side) that hold reference m
ParentSlots(h, m) ==
    {<<n, "left">> : n \in {x \in 1..Len(h) : h[x].left_child = m}}
    \cup {<<n, "right">> : n \in {x \in 1..Len(h) : h[x].right_child = m}}

\* C6: inserting a key equal to a stored key is accepted, both copies appear
\* in get_inorder_values() at adjacent positions, and find_value of that key
\* still returns True.
C6_DuplicateRouting ==
    [][(op'.name = "insert" /\ op'.arg \in Range(get_inorder_values(root_node, heap)))
       => LET v == op'.arg
              before == get_inorder_values(root_node, heap)
              after == get_inorder_values(root_node', heap')
              ids == InorderNodes(heap', root_node', Len(heap'))
          IN  /\ ~op'.exc
              /\ Len(heap') = Len(heap) + 1
              /\ Count(after, v) = Count(before, v) + 1
              /\ Len(ids) = Len(after)
              /\ \E i \in 1..Len(ids) :
                    /\ ids[i] = Len(heap')
                    /\ after[i] = v
                    /\ \/ i > 1 /\ after[i - 1] = v
                       \/ i < Len(after) /\ after[i + 1] = v
              /\ \A i, j \in 1..Len(after) :
                    (i < j /\ after[i] = v /\ after[j] = v)
                    => \A m \in i..j : after[m] = v
              /\ find_value(root_node', heap', v) = [exc |-> FALSE, found |-> TRUE]
      ]_vars

\* a copy of a stored key has been inserted below a node with another key
C6_Witness ==
    /\ op.name = "insert" /\ ~op.exc
    /\ Count(history, op.arg) >= 2
    /\ history[Len(history)] = op.arg
    /\ \E s \in ParentSlots(heap, Len(heap)) : heap[s[1]].value # op.arg

\* C7: copies of equal keys appear in get_inorder_values() in the order in
\* which they were inserted.
C7_TiesKeepInsertionOrder ==
    LET ids == InorderNodes(heap, root_node, Len(heap))
        vals == get_inorder_values(root_node, heap)
    IN  /\ Len(heap) = Len(history)
        /\ \A n \in 1..Len(heap) : heap[n].value = history[n]
        /\ Len(ids) = Len(vals)
        /\ \A i \in 1..Len(ids) : vals[i] = heap[ids[i]].value
        /\ \A i, j \in 1..Len(ids) :
              (i < j /\ vals[i] = vals[j]) => ids[i] < ids[j]
        /\ op.name = "inorder" => op.values = vals

\* get_inorder_values() has returned three copies of a key and another key
C7_Witness ==
    /\ op.name = "inorder"
    /\ \E k \in Keys : Count(op.values, k) >= 3
    /\ Cardinality(Range(op.values)) >= 2

C9_TreeShape ==
    LET N == 1..Len(heap)
    IN  /\ (root_node = None) <=> (N = {})
        /\ root_node \in N \cup {None}
        /\ \A n \in N : /\ heap[n].left_child \in N \cup {None}
                        /\ heap[n].right_child \in N \cup {None}
        /\ \A n \in N : n \notin ReachFrom(heap, Children(heap, n), Len(heap))
        /\ Subtree(heap, root_node) = N
        /\ \A m \in N :
              Cardinality(ParentSlots(heap, m)) = IF m = root_node THEN 0 ELSE 1
        /\ \A n \in N :
              heap[n].left_child # None => heap[n].left_child # heap[n].right_child

\* a full tree with a node that has both children and a node three levels down
C9_Witness ==
    /\ Len(heap) = MaxNodes
    /\ \E n \in 1..Len(heap) :
          heap[n].left_child # None /\ heap[n].right_child # None
    /\ \E a, b \in 1..Len(heap) :
          /\ a \in Children(heap, root_node)
          /\ b \in Children(heap, a)
          /\ Children(heap, b) # {}

\* C10: a find_value call, whatever it returns, leaves root_node, every
\* node's key and every child link unchanged, so later get_inorder_values()
\* and find_value results are unaffected.
C10_FindHasNoSideEffects ==
    [][op'.name = "find"
       => /\ root_node' = root_node
          /\ heap' = heap
          /\ get_inorder_values(root_node', heap') = get_inorder_values(root_node, heap)
          /\ \A k \in Keys :
                find_value(root_node', heap', k) = find_value(root_node, heap, k)
      ]_vars

\* find_value has returned True for a key stored two levels below the root,
\* and False is returned for another key
C10_Witness ==
    /\ op.name = "find" /\ ~op.exc /\ op.found
    /\ \E a \in Children(heap, root_node) :
          \E b \in Children(heap, a) : heap[b].value = op.arg
    /\ heap[root_node].value # op.arg
    /\ \E k \in Keys : find_value(root_node, heap, k) = [exc |-> FALSE, found |-> FALSE]

\* C11: two consecutive get_inorder_values() calls with no insert_value
\* between them return equal sequences, and the traversal does not modify the
\* tree.
C11_IdempotentTraversal ==
    [][op'.name = "inorder"
       => /\ root_node' = root_node
          /\ heap' = heap
          /\ (held.taken /\ held.at = Len(history)) => op'.values = held.values
      ]_vars

\* get_inorder_values() has returned three keys for the second time, no
\* insert_value in between
C11_Witness ==
    /\ op.name = "inorder"
    /\ held.since = 0
    /\ Len(op.values) >= 3
    /\ held.values = op.values

\* C12: a sequence returned by get_inorder_values() is not changed by a later
\* insert_value call, and a call made after the insert returns a freshly
\* computed sequence that includes the new key.
C12_SnapshotNotLiveView ==
    [][/\ op'.name = "insert" => held' = held
       /\ (op'.name = "inorder" /\ held.taken /\ held.at < Len(history))
          => /\ op'.values = get_inorder_values(root_node, heap)
             /\ Len(op'.values) = Len(held.values) + (Len(history) - held.at)
             /\ \A k \in Keys : Count(op'.values, k) = Count(history, k)
             /\ \A i \in (held.at + 1)..Len(history) :
                   Count(op'.values, history[i]) > Count(held.values, history[i])
      ]_vars

\* a list was kept, keys were inserted, and a new call has returned more keys
C12_Witness ==
    /\ op.name = "inorder"
    /\ held.since >= 1
    /\ Len(op.values) >= 2
    /\ Len(op.values) = Len(history)

\* the number of nodes on the longest path from node n down
RECURSIVE Depth(_, _, _)
Depth(h, n, fuel) ==
    IF n = None \/ fuel = 0
    THEN 0
    ELSE LET l == Depth(h, h[n].left_child, fuel - 1)
             r == Depth(h, h[n].right_child, fuel - 1)
         IN  1 + IF l > r THEN l ELSE r

StrictlyAscending(s) ==
    \A i \in 1..(Len(s) - 1) : ~LtRaises(s[i], s[i + 1]) /\ Lt(s[i], s[i + 1])

\* C13: inserting 8, 3, 10, 1, 6, 14, 4, 7 in that order into an empty tree
\* gives get_inorder_values() = [1, 3, 4, 6, 7, 8, 10, 14], find_value(6) =
\* True and find_value(13) = False.
C13_DemoScenario ==
    history = numbers_to_add
    => LET sorted == <<<<"int", 1>>, <<"int", 3>>, <<"int", 4>>, <<"int", 6>>,
                       <<"int", 7>>, <<"int", 8>>, <<"int", 10>>, <<"int", 14>>>>
       IN  /\ get_inorder_values(root_node, heap) = sorted
           /\ find_value(root_node, heap, <<"int", 6>>) = [exc |-> FALSE, found |-> TRUE]
           /\ find_value(root_node, heap, <<"int", 13>>) = [exc |-> FALSE, found |-> FALSE]
           /\ op.name = "inorder" => op.values = sorted
           /\ (op.name = "find" /\ op.arg = <<"int", 6>>) => (~op.exc /\ op.found)
           /\ (op.name = "find" /\ op.arg = <<"int", 13>>) => (~op.exc /\ ~op.found)

\* the eight keys are in and find_value(13) has returned False
C13_Witness ==
    /\ history = numbers_to_add
    /\ todo = <<>>
    /\ op.name = "find" /\ op.arg = <<"int", 13>>
    /\ ~op.found

\* C14: inserting keys in strictly ascending order (1, 2, 3, 4, 5) gives a
\* right-only chain: no node has a left child, the depth is the number of
\* keys, and get_inorder_values() returns the keys in ascending order.
C14_AscendingChain ==
    StrictlyAscending(history)
    => /\ Len(heap) = Len(history)
       /\ \A n \in 1..Len(heap) :
             /\ heap[n].left_child = None
             /\ heap[n].right_child = IF n < Len(heap) THEN n + 1 ELSE None
       /\ Depth(heap, root_node, Len(heap)) = Len(history)
       /\ get_inorder_values(root_node, heap) = history
       /\ op.name = "inorder" => op.values = history

\* 1, 2, 3, 4, 5 are in, the depth is 5, and the traversal has returned them
C14_Witness ==
    /\ history = [i \in 1..5 |-> <<"int", i>>]
    /\ Depth(heap, root_node, Len(heap)) = 5
    /\ op.name = "inorder"
    /\ op.values = history

\* C15: a freshly constructed tree has no root, get_inorder_values() returns
\* the empty sequence and find_value(k) returns False for every key k.
C15_EmptyTree ==
    history = <<>>
    => /\ root_node = None
       /\ heap = <<>>
       /\ get_inorder_values(root_node, heap) = <<>>
       /\ \A k \in Keys :
             find_value(root_node, heap, k) = [exc |-> FALSE, found |-> FALSE]
       /\ op.name = "inorder" => op.values = <<>>
       /\ op.name = "find" => (~op.exc /\ ~op.found)

\* find_value of a str key has returned False on the tree just constructed
C15_Witness ==
    /\ history = <<>>
    /\ root_node = None
    /\ op.name = "find" /\ op.arg \in StrKeys
    /\ ~op.exc /\ ~op.found

\* the side of node n a key v is sent to, and the reference in that slot
Side(h, n, v) == IF Lt(v, h[n].value) THEN "left" ELSE "right"

Slot(h, n, side) == IF side = "left" THEN h[n].left_child ELSE h[n].right_child

SetSlot(h, n, side, ref) ==
    IF side = "left" THEN [h EXCEPT ![n].left_child = ref]
                     ELSE [h EXCEPT ![n].right_child = ref]

\* the nodes that have node n below them
Ancestors(h, n) == {a \in 1..Len(h) : a # n /\ n \in Subtree(h, a)}

\* C16: insert_value on a non-empty tree walks from the root, left when the
\* key is strictly less than the node's key and right otherwise, and attaches
\* one new childless node holding the key at the first absent slot on that path.
C16_InsertPlacement ==
    [][(op'.name = "insert" /\ ~op'.exc /\ root_node # None)
       => LET v == op'.arg
              new == Len(heap) + 1
              path == SearchPath(heap, root_node, v, Len(heap))
          IN  /\ Len(heap') = new
              /\ heap'[new] = TreeNode(v)
              /\ root_node' = root_node
              /\ \E p \in path :
                    /\ Slot(heap, p, Side(heap, p, v)) = None
                    /\ heap' = Append(SetSlot(heap, p, Side(heap, p, v), new),
                                      TreeNode(v))
                    /\ \A q \in path \ {p} :
                          Slot(heap, q, Side(heap, q, v)) \in path
              /\ Ancestors(heap', new) = path
      ]_vars

\* the new node hangs three or more levels below the root, the last two
\* steps of the walk going left and then right
C16_Witness ==
    /\ op.name = "insert" /\ ~op.exc
    /\ \E g, p \in 1..Len(heap) :
          /\ heap[g].left_child = p
          /\ heap[p].right_child = Len(heap)
          /\ g \in Ancestors(heap, p)
          /\ Cardinality(Ancestors(heap, Len(heap))) >= 3

\* C17: when root_node is absent, insert_value(k) sets root_node to a new
\* childless node with key k; once set, root_node is never replaced.
C17_RootSetOnce ==
    [][/\ (op'.name = "insert" /\ root_node = None)
          => /\ ~op'.exc
             /\ root_node' # None
             /\ heap' = <<TreeNode(op'.arg)>>
             /\ heap'[root_node'] = TreeNode(op'.arg)
       /\ root_node # None
          => /\ root_node' = root_node
             /\ heap'[root_node'].value = heap[root_node].value
      ]_vars

\* the first key is still the root after smaller and larger keys were inserted
C17_Witness ==
    /\ op.name = "insert" /\ ~op.exc
    /\ Len(heap) >= 3
    /\ heap[root_node].value = history[1]
    /\ \E i, j \in 2..Len(history) :
          Lt(history[i], history[1]) /\ Lt(history[1], history[j])

\* C18: an insert_value call changes exactly one previously absent slot (the
\* root slot or one child slot of an existing node); every existing node
\* keeps its key, its attached child links, its parent and its depth.
C18_InsertFrame ==
    [][(op'.name = "insert" /\ ~op'.exc)
       => LET N == 1..Len(heap)
              new == Len(heap) + 1
              changed ==
                  {<<n, "left">> : n \in {x \in N : heap'[x].left_child # heap[x].left_child}}
                  \cup {<<n, "right">> : n \in {x \in N : heap'[x].right_child # heap[x].right_child}}
                  \cup (IF root_node' # root_node THEN {<<None, "root">>} ELSE {})
          IN  /\ Len(heap') = new
              /\ Cardinality(changed) = 1
              /\ \A c \in changed :
                    IF c[2] = "root"
                    THEN root_node = None /\ root_node' = new
                    ELSE Slot(heap, c[1], c[2]) = None /\ Slot(heap', c[1], c[2]) = new
              /\ \A n \in N :
                    /\ heap'[n].value = heap[n].value
                    /\ ParentSlots(heap', n) = ParentSlots(heap, n)
                    /\ Ancestors(heap', n) = Ancestors(heap, n)
      ]_vars

\* a key has been inserted into a full tree below a node that had the other
\* child already
C18_Witness ==
    /\ op.name = "insert" /\ ~op.exc
    /\ Len(heap) = MaxNodes
    /\ \E p \in 1..Len(heap) :
          /\ Len(heap) \in Children(heap, p)
          /\ Cardinality(Children(heap, p)) = 2
          /\ p # root_node

\* C19: whenever a key equal to the key of a stored node N is inserted, the
\* new node is placed inside the right subtree of N, for every earlier equal
\* copy N.
C19_DuplicatesInRightSubtree ==
    [][(op'.name = "insert" /\ ~op'.exc)
       => \A n \in 1..Len(heap) :
             heap[n].value = op'.arg
             => /\ Len(heap') \in Subtree(heap', heap'[n].right_child)
                /\ Len(heap') \notin Subtree(heap', heap'[n].left_child)
      ]_vars

\* a third copy of a key has been inserted, another key being stored as well
C19_Witness ==
    /\ op.name = "insert" /\ ~op.exc
    /\ Count(history, op.arg) >= 3
    /\ \E k \in Range(history) : Lt(op.arg, k)
    /\ \A n \in 1..(Len(heap) - 1) :
          heap[n].value = op.arg => Len(heap) \in Subtree(heap, heap[n].right_child)

\* C20: insert_value and find_value terminate after visiting the nodes of a
\* single path from the root only, at most as many as keys are stored, for
\* insert as many as the depth of the insertion point; get_inorder_values
\* terminates after visiting every node exactly once.
C20_TerminationAndStepBound ==
    /\ [](LET vis == run.visits
              stored == IF run.name = "insert" /\ run.status = "returned"
                        THEN Len(heap) - 1 ELSE Len(heap)
          IN  /\ \A i, j \in 1..Len(vis) : i # j => vis[i] # vis[j]
              /\ run.name \in {"insert", "find"}
                 => /\ Len(vis) <= stored
                    /\ vis # <<>> => vis[1] = root_node
                    /\ \A i \in 1..(Len(vis) - 1) : vis[i + 1] \in Children(heap, vis[i])
              /\ (run.name = "insert" /\ run.status = "returned")
                 => /\ Range(vis) = Ancestors(heap, Len(heap))
                    /\ Len(vis) = Cardinality(Ancestors(heap, Len(heap)))
              /\ (run.name = "inorder" /\ run.status = "returned")
                 => /\ Range(vis) = 1..Len(heap)
                    /\ Len(vis) = Len(heap)
                    /\ run.result = get_inorder_values(root_node, heap))
    /\ (run.status = "running") ~> (run.status # "running")

\* get_inorder_values has returned after visiting every node of a full tree
\* whose root has both children
C20_Witness ==
    /\ run.name = "inorder" /\ run.status = "returned"
    /\ Len(heap) = MaxStepNodes
    /\ Len(run.visits) = MaxStepNodes
    /\ Cardinality(Children(heap, root_node)) = 2

\* ---------------------------------------------------------------- C21
\* C21: on an empty tree nothing is compared: insert_value of any key makes
\* it the root and returns, find_value of any key returns False, both without
\* reading a node; a call raises only on a non-empty tree, and at the first
\* node it reads whose key cannot be ordered against the argument.
C21_NoComparisonOnEmptyTree ==
    /\ [](run.status = "raised" =>
            /\ root_node # None
            /\ run.visits # <<>>
            /\ \A i \in 1..Len(run.visits) :
                 LtRaises(run.arg, heap[run.visits[i]].value)
                     <=> i = Len(run.visits))
    /\ [][(root_node = None /\ run' # run /\ run'.name = "insert") =>
            /\ run'.status = "returned"
            /\ run'.visits = <<>>
            /\ root_node' # None
            /\ heap'[root_node'].value = run'.arg
            /\ history' = <<run'.arg>>]_vars
    /\ [][(root_node = None /\ run.name = "find" /\ run.status = "running") =>
            /\ run'.status = "returned"
            /\ ~run'.found
            /\ run'.visits = <<>>]_vars

\* a str key went into the empty tree without error, and a later insert of an
\* int key raised at the root
C21_Witness ==
    /\ Len(history) >= 1
    /\ history[1] \in StrKeys
    /\ run.name = "insert"
    /\ run.status = "raised"
    /\ run.arg \in IntKeys
    /\ run.visits = <<root_node>>

\* ------------------------------------------- interleaved insert_value calls
\* Two callers run insert_value on one tree, one statement at a time.  The
\* test of a slot (root_node or a child link) and the write of the new node
\* into it are separate statements, and a statement of the other caller may
\* run between them.  race.thr[t].pc is the statement caller t runs next;
\* race.raced records that a caller ran a statement while the other one stood
\* between its test and its write.
MaxRaceNodes == 3

WritePcs == {"write_root", "write_left", "write_right"}

InCall == {t \in Threads : race.thr[t].pc # "idle"}

\* caller t runs a statement: the thread moves to th
Ran(t, th) ==
    race' = [thr |-> [race.thr EXCEPT ![t] = th],
             raced |-> race.raced
                       \/ \E u \in Threads \ {t} : race.thr[u].pc \in WritePcs]

\* caller t calls tree.insert_value(v)
RaceCall(t, v) ==
    /\ race.thr[t].pc = "idle"
    /\ Len(heap) + Cardinality(InCall) < MaxRaceNodes
    /\ Ran(t, [pc |-> "test_root", arg |-> v, cur |-> None])
    /\ UNCHANGED <<root_node, heap, history>>

\* if not self.root_node
RaceTestRoot(t) ==
    /\ race.thr[t].pc = "test_root"
    /\ Ran(t, [race.thr[t] EXCEPT
                   !.pc = IF root_node = None THEN "write_root" ELSE "enter"])
    /\ UNCHANGED <<root_node, heap, history>>

\* self.root_node = TreeNode(value)
RaceWriteRoot(t) ==
    /\ race.thr[t].pc = "write_root"
    /\ root_node' = Len(heap) + 1
    /\ heap' = Append(heap, TreeNode(race.thr[t].arg))
    /\ history' = Append(history, race.thr[t].arg)
    /\ Ran(t, IdleThread)

\* self._insert_recursive(self.root_node, value): the read of root_node
RaceEnter(t) ==
    /\ race.thr[t].pc = "enter"
    /\ Ran(t, [race.thr[t] EXCEPT !.pc = "compare", !.cur = root_node])
    /\ UNCHANGED <<root_node, heap, history>>

\* _insert_recursive tests a child link although it goes on to write it
\* whether or not a node is there
RaceCompare_no_slot_test(t) ==
    /\ race.thr[t].pc = "compare"
    /\ LET th == race.thr[t]
           n == th.cur
       IN  IF LtRaises(th.arg, heap[n].value)
           THEN Ran(t, IdleThread)
           ELSE IF Lt(th.arg, heap[n].value)
           THEN Ran(t, [th EXCEPT !.pc = "write_left"])
           ELSE Ran(t, [th EXCEPT !.pc = "write_right"])
    /\ UNCHANGED <<root_node, heap, history>>

\* value < current_node.value and the test of the child link on that side;
\* a TypeError ends the call
RaceCompare(t) ==
    /\ race.thr[t].pc = "compare"
    /\ LET th == race.thr[t]
           n == th.cur
       IN  IF LtRaises(th.arg, heap[n].value)
           THEN Ran(t, IdleThread)
           ELSE IF Lt(th.arg, heap[n].value)
           THEN Ran(t, [th EXCEPT !.pc = IF heap[n].left_child # None
                                         THEN "descend_left"
                                         ELSE "write_left"])
           ELSE Ran(t, [th EXCEPT !.pc = IF heap[n].right_child # None
                                         THEN "descend_right"
                                         ELSE "write_right"])
    /\ UNCHANGED <<root_node, heap, history>>

\* self._insert_recursive(current_node.left_child, value), or right_child:
\* the read of the child link
RaceDescend(t) ==
    /\ race.thr[t].pc \in {"descend_left", "descend_right"}
    /\ LET th == race.thr[t]
       IN  Ran(t, [th EXCEPT !.pc = "compare",
                             !.cur = IF th.pc = "descend_left"
                                     THEN heap[th.cur].left_child
                                     ELSE heap[th.cur].right_child])
    /\ UNCHANGED <<root_node, heap, history>>

\* current_node.left_child = TreeNode(value), or right_child
RaceWriteChild(t) ==
    /\ race.thr[t].pc \in {"write_left", "write_right"}
    /\ LET th == race.thr[t]
       IN  /\ heap' = Append(IF th.pc = "write_left"
                             THEN [heap EXCEPT ![th.cur].left_child = Len(heap) + 1]
                             ELSE [heap EXCEPT ![th.cur].right_child = Len(heap) + 1],
                             TreeNode(th.arg))
           /\ history' = Append(history, th.arg)
    /\ Ran(t, IdleThread)
    /\ UNCHANGED root_node

NextRace ==
    \/ \E t \in Threads, v \in Keys :
         RaceCall(t, v) /\ UNCHANGED <<op, held, todo, run, search, sort, list, dlist>>
    \/ \E t \in Threads :
         RaceTestRoot(t) /\ UNCHANGED <<op, held, todo, run, search, sort, list, dlist>>
    \/ \E t \in Threads :
         RaceWriteRoot(t) /\ UNCHANGED <<op, held, todo, run, search, sort, list, dlist>>
    \/ \E t \in Threads :
         RaceEnter(t) /\ UNCHANGED <<op, held, todo, run, search, sort, list, dlist>>
    \/ \E t \in Threads :
         RaceCompare(t) /\ UNCHANGED <<op, held, todo, run, search, sort, list, dlist>>
    \/ \E t \in Threads :
         RaceDescend(t) /\ UNCHANGED <<op, held, todo, run, search, sort, list, dlist>>
    \/ \E t \in Threads :
         RaceWriteChild(t) /\ UNCHANGED <<op, held, todo, run, search, sort, list, dlist>>

SpecRace == Init /\ [][NextRace]_vars

\* a key whose insert_value call returned is missing from get_inorder_values()
Lost ==
    \E k \in Keys :
        Count(get_inorder_values(root_node, heap), k) < Count(history, k)

\* ---------------------------------------------------------------- C22
\* C22: a key of a returned insert_value call is missing from
\* get_inorder_values() only if a caller ran a statement while the other
\* caller stood between its test that a slot is absent and its write into the
\* slot; when no call is interleaved in that way (in particular when every
\* call runs to completion before the next starts) no key is lost, and with
\* such an interleaving a loss is reached.
C22_LossOnlyWhenInterleaved == Lost => race.raced

\* both callers found the same child link of the root absent; the later write
\* replaced the earlier node, and one of the three inserted keys is missing
C22_Witness ==
    /\ InCall = {}
    /\ Len(history) = 3
    /\ root_node = 1
    /\ Len(get_inorder_values(root_node, heap)) = 2
    /\ race.raced
    /\ Lost

\* ============================================================ binary_search
\* binary_search(arr, target) of src/time-complexity.py, one loop iteration
\* at a time.  A Python list is a sequence: arr[i] of the code is arr[i + 1]
\* here.  The elements and the target are ints.
MaxArr == 7
MaxVal == 3

\* the variables of the binary search tree
tree == <<root_node, heap, history, op, held, todo, run>>

\* the lists of at most MaxArr ints sorted in non-decreasing order
SortedLists ==
    UNION {{a \in [1..n -> 1..MaxVal] : \A i \in 1..(n - 1) : a[i] <= a[i + 1]} :
           n \in 0..MaxArr}

\* targets below, among and above the elements
Targets == 0..(MaxVal + 1)

\* low = 0; high = len(arr) - 1; steps = 0
CallBinarySearch(arr, target) ==
    /\ search.status = "idle"
    /\ search' = [status |-> "loop", arr |-> arr, target |-> target, low |-> 0,
                  high |-> Len(arr) - 1, steps |-> 0, result |-> -1]

\* one iteration with the two branches exchanged
LoopIteration_swapped ==
    /\ search.status = "loop"
    /\ search.low <= search.high
    /\ LET mid == (search.low + search.high) \div 2
           counted == [search EXCEPT !.steps = @ + 1]
       IN  IF search.arr[mid + 1] = search.target
           THEN search' = [counted EXCEPT !.status = "returned", !.result = mid]
           ELSE IF search.arr[mid + 1] < search.target
           THEN search' = [counted EXCEPT !.high = mid - 1]
           ELSE search' = [counted EXCEPT !.low = mid + 1]

\* one iteration that keeps mid inside the window: low = mid, high = mid
LoopIteration_keeps_mid ==
    /\ search.status = "loop"
    /\ search.low <= search.high
    /\ LET mid == (search.low + search.high) \div 2
           counted == [search EXCEPT !.steps = @ + 1]
       IN  IF search.arr[mid + 1] = search.target
           THEN search' = [counted EXCEPT !.status = "returned", !.result = mid]
           ELSE IF search.arr[mid + 1] < search.target
           THEN search' = [counted EXCEPT !.low = mid]
           ELSE search' = [counted EXCEPT !.high = mid]

\* while low <= high: one iteration of the loop body
LoopIteration ==
    /\ search.status = "loop"
    /\ search.low <= search.high
    /\ LET mid == (search.low + search.high) \div 2
           counted == [search EXCEPT !.steps = @ + 1]
       IN  IF search.arr[mid + 1] = search.target
           THEN search' = [counted EXCEPT !.status = "returned", !.result = mid]
           ELSE IF search.arr[mid + 1] < search.target
           THEN search' = [counted EXCEPT !.low = mid + 1]
           ELSE search' = [counted EXCEPT !.high = mid - 1]

\* the loop condition fails: return -1
LoopExit ==
    /\ search.status = "loop"
    /\ search.low > search.high
    /\ search' = [search EXCEPT !.status = "returned", !.result = -1]

NextSearch ==
    \/ \E arr \in SortedLists, target \in Targets :
         CallBinarySearch(arr, target) /\ UNCHANGED <<tree, race, sort, list, dlist>>
    \/ LoopIteration /\ UNCHANGED <<tree, race, sort, list, dlist>>
    \/ LoopExit /\ UNCHANGED <<tree, race, sort, list, dlist>>

SpecSearch == Init /\ [][NextSearch]_vars

\* the width high - low + 1 of the search window
Width(s) == s.high - s.low + 1

RECURSIVE FloorLog2(_)
FloorLog2(n) == IF n <= 1 THEN 0 ELSE 1 + FloorLog2(n \div 2)

\* ---------------------------------------------------------------- C23
\* C23: for a list sorted in non-decreasing order, binary_search returns an
\* index i with 0 <= i < len(arr) and arr[i] == target when the target occurs
\* in the list and -1 when it does not (the empty list included); at every
\* test of the loop condition a target that occurs in the list occurs in
\* arr[low..high].
C23_BinarySearchCorrect ==
    /\ search.status = "loop" =>
         (search.target \in Range(search.arr) =>
            \E i \in search.low..search.high :
               /\ i \in 0..(Len(search.arr) - 1)
               /\ search.arr[i + 1] = search.target)
    /\ search.status = "returned" =>
         IF search.target \in Range(search.arr)
         THEN /\ search.result \in 0..(Len(search.arr) - 1)
              /\ search.arr[search.result + 1] = search.target
         ELSE search.result = -1

\* the target occurs more than once and the index returned is not the one of
\* its first occurrence
C23_Witness ==
    /\ search.status = "returned"
    /\ search.result >= 1
    /\ search.arr[search.result + 1] = search.target
    /\ search.arr[search.result] = search.target

MaxSortLen == 4
MaxSortKey == 3
MaxMergeLen == 3

\* a < b between two elements
ElemLt(a, b) == a[1] < b[1]

\* the list of the values of keys, each with its position as id, the first
\* at position first
Tagged(keys, first) == [i \in 1..Len(keys) |-> <<keys[i], first + i - 1>>]

\* unsorted = [9, 3, 7, 1, 6, 2, 5, 8, 4]
unsorted == Tagged(<<9, 3, 7, 1, 6, 2, 5, 8, 4>>, 1)

\* the lists a caller passes to merge_sort
Lists ==
    {unsorted} \cup
    UNION {{Tagged(k, 1) : k \in [1..n -> 1..MaxSortKey]} : n \in 0..MaxSortLen}

\* the key lists in non-decreasing order, of at most MaxMergeLen keys
SortedKeys ==
    UNION {{k \in [1..n -> 1..MaxSortKey] : \A i \in 1..(n - 1) : k[i] <= k[i + 1]} :
           n \in 0..MaxMergeLen}

\* the while loop of merge with the test left[i] <= right[j]: ties take left
RECURSIVE merge_loop_ties_left(_, _, _, _, _)
merge_loop_ties_left(left, right, i, j, sorted_list) ==
    IF i < Len(left) /\ j < Len(right)
    THEN IF ~ElemLt(right[j + 1], left[i + 1])
         THEN merge_loop_ties_left(left, right, i + 1, j,
                                   Append(sorted_list, left[i + 1]))
         ELSE merge_loop_ties_left(left, right, i, j + 1,
                                   Append(sorted_list, right[j + 1]))
    ELSE [i |-> i, j |-> j, sorted_list |-> sorted_list]

\* while i < len(left) and j < len(right): the loop of merge, from i, j and
\* sorted_list to their values when the loop ends
RECURSIVE merge_loop(_, _, _, _, _)
merge_loop(left, right, i, j, sorted_list) ==
    IF i < Len(left) /\ j < Len(right)
    THEN IF ElemLt(left[i + 1], right[j + 1])
         THEN merge_loop(left, right, i + 1, j, Append(sorted_list, left[i + 1]))
         ELSE merge_loop(left, right, i, j + 1, Append(sorted_list, right[j + 1]))
    ELSE [i |-> i, j |-> j, sorted_list |-> sorted_list]

\* merge without sorted_list.extend(right[j:])
merge_no_right_rest(left, right) ==
    LET l == merge_loop(left, right, 0, 0, <<>>)
    IN  l.sorted_list \o SubSeq(left, l.i + 1, Len(left))

\* merge(left, right): the loop, then extend(left[i:]) and extend(right[j:])
merge(left, right) ==
    LET l == merge_loop(left, right, 0, 0, <<>>)
    IN  l.sorted_list \o SubSeq(left, l.i + 1, Len(left))
                      \o SubSeq(right, l.j + 1, Len(right))

\* merge_sort(arr)
RECURSIVE merge_sort(_)
merge_sort(arr) ==
    IF Len(arr) <= 1
    THEN arr
    ELSE LET mid == Len(arr) \div 2
             left == merge_sort(SubSeq(arr, 1, mid))
             right == merge_sort(SubSeq(arr, mid + 1, Len(arr)))
         IN  merge(left, right)

\* the caller builds a list
MakeList(arr) ==
    /\ sort.call = "idle"
    /\ sort' = [sort EXCEPT !.call = "list", !.arr = arr]

\* sorted_result = merge_sort(arr); sort.arr is the caller's list after it
CallMergeSort ==
    /\ sort.call = "list"
    /\ sort' = [sort EXCEPT !.call = "merge_sort", !.out = merge_sort(sort.arr)]

\* merge(left, right) of two lists in non-decreasing order
CallMerge(left, right) ==
    /\ sort.call = "idle"
    /\ sort' = [sort EXCEPT !.call = "merge", !.left = left, !.right = right,
                            !.out = merge(left, right)]

NextSort ==
    \/ \E arr \in Lists :
         MakeList(arr) /\ UNCHANGED <<tree, race, search, list, dlist>>
    \/ CallMergeSort /\ UNCHANGED <<tree, race, search, list, dlist>>
    \/ \E l, r \in SortedKeys :
         CallMerge(Tagged(l, 1), Tagged(r, Len(l) + 1))
             /\ UNCHANGED <<tree, race, search, list, dlist>>

SpecSort == Init /\ [][NextSort]_vars

\* s is in non-decreasing order
InOrder(s) == \A i \in 1..(Len(s) - 1) : ~ElemLt(s[i + 1], s[i])

\* s and t hold the same elements with the same multiplicities
SameElements(s, t) ==
    /\ Len(s) = Len(t)
    /\ \A x \in Range(s) \cup Range(t) : Count(s, x) = Count(t, x)

\* the position of element x in s
PosIn(s, x) == CHOOSE p \in 1..Len(s) : s[p] = x

\* ---------------------------------------------------------------- C25
\* C25: merge_sort(arr) returns a list in non-decreasing order holding the
\* elements of arr with their multiplicities, and leaves arr as it was;
\* merge(left, right) of two non-decreasing lists is non-decreasing and holds
\* the elements of left followed by right with their multiplicities.
C25_MergeSortCorrect ==
    /\ [](sort.call = "merge_sort" =>
            /\ InOrder(sort.out)
            /\ SameElements(sort.out, sort.arr))
    /\ [](sort.call = "merge" =>
            /\ InOrder(sort.out)
            /\ SameElements(sort.out, sort.left \o sort.right))
    /\ [][sort'.call = "merge_sort" => sort'.arr = sort.arr]_sort

\* the list of the script sorted: 1..9 in order, the caller's list as it was
C25_Witness ==
    /\ sort.call = "merge_sort"
    /\ sort.arr = unsorted
    /\ [i \in 1..Len(sort.out) |-> sort.out[i][1]] = <<1, 2, 3, 4, 5, 6, 7, 8, 9>>

\* ---------------------------------------------------------------- C26
\* C26: in the list merge returns, an element of right stands before every
\* element of left it compares equal to; merge_sort therefore does not keep
\* the input order of equal elements: two elements of arr that compare equal
\* stand in the result in the order opposite to their order in arr.
C26_TiesTakeRight ==
    /\ sort.call = "merge" =>
         \A x \in Range(sort.left), y \in Range(sort.right) :
            (~ElemLt(x, y) /\ ~ElemLt(y, x)) =>
                PosIn(sort.out, y) < PosIn(sort.out, x)
    /\ sort.call = "merge_sort" =>
         \A i, j \in 1..Len(sort.arr) :
            (i < j /\ ~ElemLt(sort.arr[i], sort.arr[j])
                   /\ ~ElemLt(sort.arr[j], sort.arr[i])) =>
                PosIn(sort.out, sort.arr[j]) < PosIn(sort.out, sort.arr[i])

\* three elements, the first and the last equal: they come out exchanged
C26_Witness ==
    /\ sort.call = "merge_sort"
    /\ Len(sort.arr) = 3
    /\ sort.arr[1][1] = sort.arr[3][1]
    /\ sort.arr[2][1] > sort.arr[1][1]
    /\ sort.out = <<sort.arr[3], sort.arr[1], sort.arr[2]>>

\* =============================================================== LinkedList
\* Node and LinkedList of src/data_structures_revision_snippets.py.  The Node
\* objects are list.nodes, a reference is an index into it and None is 0;
\* list.appended records the data of the append calls, list.printed what the
\* last print_list call printed.
MaxListLen == 4
MaxListData == 2

ListData == 0..MaxListData

\* Node(data): next is None
Node(data) == [data |-> data, next |-> None]

\* what print writes for a node's data and for the closing None
PrintedData(d) == <<"data", d>>
PrintedNone == <<"None", 0>>

\* while last.next: last = last.next, from last; a loop that has not ended
\* after fuel iterations never ends (the links form a cycle) and yields None
RECURSIVE LastFrom(_, _, _)
LastFrom(nodes, last, fuel) ==
    IF nodes[last].next = None
    THEN last
    ELSE IF fuel = 0
    THEN None
    ELSE LastFrom(nodes, nodes[last].next, fuel - 1)

\* the nodes visited by following next from cur, at most fuel of them
RECURSIVE ChainFrom(_, _, _)
ChainFrom(nodes, cur, fuel) ==
    IF cur = None \/ fuel = 0
    THEN <<>>
    ELSE <<cur>> \o ChainFrom(nodes, nodes[cur].next, fuel - 1)

\* append that links the new node behind head instead of behind the last node
LinkedList_append_after_head(data) ==
    /\ Len(list.nodes) < MaxListLen
    /\ LET new_node == Len(list.nodes) + 1
           made == Append(list.nodes, Node(data))
       IN  IF list.head = None
           THEN list' = [list EXCEPT !.head = new_node, !.nodes = made,
                                     !.appended = Append(@, data)]
           ELSE list' = [list EXCEPT !.nodes = [made EXCEPT ![list.head].next = new_node],
                                     !.appended = Append(@, data)]

\* LinkedList.append(data)
LinkedList_append(data) ==
    /\ Len(list.nodes) < MaxListLen
    /\ LET new_node == Len(list.nodes) + 1
           made == Append(list.nodes, Node(data))
       IN  IF list.head = None
           THEN list' = [list EXCEPT !.head = new_node, !.nodes = made,
                                     !.appended = Append(@, data)]
           ELSE LET last == LastFrom(list.nodes, list.head, Len(list.nodes))
                IN  /\ last # None
                    /\ list' = [list EXCEPT !.nodes = [made EXCEPT ![last].next = new_node],
                                            !.appended = Append(@, data)]

\* LinkedList.print_list()
LinkedList_print_list ==
    /\ LET chain == ChainFrom(list.nodes, list.head, Len(list.nodes) + 1)
       IN  /\ Len(chain) <= Len(list.nodes)
           /\ list' = [list EXCEPT !.printed =
                          Append([i \in 1..Len(chain) |->
                                     PrintedData(list.nodes[chain[i]].data)],
                                 PrintedNone)]

NextList ==
    \/ \E data \in ListData :
         LinkedList_append(data) /\ UNCHANGED <<tree, race, search, sort, dlist>>
    \/ LinkedList_print_list /\ UNCHANGED <<tree, race, search, sort, dlist>>

SpecList == Init /\ [][NextList]_vars

\* the nodes reached from head by following next
ListChain == ChainFrom(list.nodes, list.head, Len(list.nodes) + 1)

\* ---------------------------------------------------------------- C27
\* C27: after any sequence of append calls on an empty LinkedList, following
\* next from head visits exactly the appended values in the order of the
\* calls, the last node's next is None and no node is visited twice; an
\* append leaves head and every existing link as it was, except that the
\* next of the previous last node (or head, on an empty list) refers to the
\* new node.
C27_AppendOrder ==
    /\ [](/\ [i \in 1..Len(ListChain) |-> list.nodes[ListChain[i]].data]
                = list.appended
          /\ \A i, j \in 1..Len(ListChain) : i # j => ListChain[i] # ListChain[j]
          /\ ListChain # <<>> =>
                list.nodes[ListChain[Len(ListChain)]].next = None
          /\ ListChain = <<>> <=> list.head = None)
    /\ [][list'.appended # list.appended =>
            LET n == Len(list.nodes)
                new_node == n + 1
            IN  /\ Len(list'.nodes) = n + 1
                /\ list'.nodes[new_node] = Node(list'.appended[new_node])
                /\ IF list.head = None
                   THEN /\ list'.head = new_node
                        /\ \A i \in 1..n : list'.nodes[i] = list.nodes[i]
                   ELSE /\ list'.head = list.head
                        /\ \A i \in 1..n :
                             list'.nodes[i] =
                                IF i = ListChain[Len(ListChain)]
                                THEN [list.nodes[i] EXCEPT !.next = new_node]
                                ELSE list.nodes[i]]_list

\* three appends, as in the script: head is the first node, each node's next
\* is the node of the following append
C27_Witness ==
    /\ list.appended = <<1, 2, 0>>
    /\ list.head = 1
    /\ list.nodes = <<[data |-> 1, next |-> 2], [data |-> 2, next |-> 3],
                      [data |-> 0, next |-> None]>>

\* ========================================================= DoublyLinkedList
\* DNode and DoublyLinkedList of src/data_structures_revision_snippets.py.
\* The DNode objects are dlist.nodes, a reference is an index into it and
\* None is 0; dlist.appended and dlist.prepended record the data of the
\* append and prepend calls, dlist.printed what the last print call printed.
MaxDListLen == 4
MaxDListData == 2

DListData == 0..MaxDListData

\* DNode(data): prev and next are None
DNode(data) == [data |-> data, prev |-> None, next |-> None]

\* the nodes visited from cur by following next (forward) or prev, at most
\* fuel of them
RECURSIVE DWalk(_, _, _, _)
DWalk(nodes, cur, forward, fuel) ==
    IF cur = None \/ fuel = 0
    THEN <<>>
    ELSE <<cur>> \o DWalk(nodes,
                          IF forward THEN nodes[cur].next ELSE nodes[cur].prev,
                          forward, fuel - 1)

\* what a traversal prints for the nodes of chain, then "None"
PrintedChain(nodes, chain) ==
    Append([i \in 1..Len(chain) |-> PrintedData(nodes[chain[i]].data)],
           PrintedNone)

\* append without new_node.prev = curr
DoublyLinkedList_append_no_prev(data) ==
    /\ Len(dlist.nodes) < MaxDListLen
    /\ LET new_node == Len(dlist.nodes) + 1
           made == Append(dlist.nodes, DNode(data))
       IN  IF dlist.head = None
           THEN dlist' = [dlist EXCEPT !.head = new_node, !.nodes = made,
                                       !.appended = Append(@, data)]
           ELSE LET walk == DWalk(dlist.nodes, dlist.head, TRUE, Len(dlist.nodes) + 1)
                    curr == walk[Len(walk)]
                IN  /\ Len(walk) <= Len(dlist.nodes)
                    /\ dlist' = [dlist EXCEPT
                           !.nodes = [made EXCEPT ![curr].next = new_node],
                           !.appended = Append(@, data)]

\* DoublyLinkedList.append(data); the while loop ends at the last node of
\* the forward walk, and never ends when that walk does not end
DoublyLinkedList_append(data) ==
    /\ Len(dlist.nodes) < MaxDListLen
    /\ LET new_node == Len(dlist.nodes) + 1
           made == Append(dlist.nodes, DNode(data))
       IN  IF dlist.head = None
           THEN dlist' = [dlist EXCEPT !.head = new_node, !.nodes = made,
                                       !.appended = Append(@, data)]
           ELSE LET walk == DWalk(dlist.nodes, dlist.head, TRUE, Len(dlist.nodes) + 1)
                    curr == walk[Len(walk)]
                IN  /\ Len(walk) <= Len(dlist.nodes)
                    /\ dlist' = [dlist EXCEPT
                           !.nodes = [made EXCEPT ![curr].next = new_node,
                                                  ![new_node].prev = curr],
                           !.appended = Append(@, data)]

\* prepend without self.head.prev = new_node
DoublyLinkedList_prepend_no_back_link(data) ==
    /\ Len(dlist.nodes) < MaxDListLen
    /\ LET new_node == Len(dlist.nodes) + 1
           made == Append(dlist.nodes, [DNode(data) EXCEPT !.next = dlist.head])
       IN  dlist' = [dlist EXCEPT !.head = new_node, !.nodes = made,
                                  !.prepended = Append(@, data)]

\* DoublyLinkedList.prepend(data)
DoublyLinkedList_prepend(data) ==
    /\ Len(dlist.nodes) < MaxDListLen
    /\ LET new_node == Len(dlist.nodes) + 1
           made == Append(dlist.nodes, [DNode(data) EXCEPT !.next = dlist.head])
       IN  dlist' = [dlist EXCEPT
               !.head = new_node,
               !.nodes = IF dlist.head # None
                         THEN [made EXCEPT ![dlist.head].prev = new_node]
                         ELSE made,
               !.prepended = Append(@, data)]

\* print_forward(): whether it returns, and what it has printed when it does
print_forward(nodes, head) ==
    LET walk == DWalk(nodes, head, TRUE, Len(nodes) + 1)
    IN  [done |-> Len(walk) <= Len(nodes), out |-> PrintedChain(nodes, walk)]

\* print_backward(): "None" alone on the empty list; otherwise the walk to
\* the node whose next is None, then the walk along prev
print_backward(nodes, head) ==
    IF head = None
    THEN [done |-> TRUE, out |-> <<PrintedNone>>]
    ELSE LET walk == DWalk(nodes, head, TRUE, Len(nodes) + 1)
             back == DWalk(nodes, walk[Len(walk)], FALSE, Len(nodes) + 1)
         IN  [done |-> Len(walk) <= Len(nodes) /\ Len(back) <= Len(nodes),
              out |-> PrintedChain(nodes, back)]

\* dll.print_forward()
CallPrintForward ==
    /\ print_forward(dlist.nodes, dlist.head).done
    /\ dlist' = [dlist EXCEPT !.printed = print_forward(dlist.nodes, dlist.head).out]

\* dll.print_backward()
CallPrintBackward ==
    /\ print_backward(dlist.nodes, dlist.head).done
    /\ dlist' = [dlist EXCEPT !.printed = print_backward(dlist.nodes, dlist.head).out]

NextDList ==
    \/ \E data \in DListData :
         DoublyLinkedList_append(data) /\ UNCHANGED <<tree, race, search, sort, list>>
    \/ \E data \in DListData :
         DoublyLinkedList_prepend(data) /\ UNCHANGED <<tree, race, search, sort, list>>
    \/ CallPrintForward /\ UNCHANGED <<tree, race, search, sort, list>>
    \/ CallPrintBackward /\ UNCHANGED <<tree, race, search, sort, list>>

SpecDList == Init /\ [][NextDList]_vars

\* the nodes reached from head by following next
DListChain == DWalk(dlist.nodes, dlist.head, TRUE, Len(dlist.nodes) + 1)

Reverse(s) == [i \in 1..Len(s) |-> s[Len(s) + 1 - i]]

\* ---------------------------------------------------------------- C28
\* C28: after any interleaving of append and prepend calls on an empty
\* DoublyLinkedList, head.prev is None, the last node's next is None, and
\* for all nodes n and m, n.next is m exactly when m.prev is n.
C28_LinkConsistency ==
    /\ dlist.head = None <=> dlist.nodes = <<>>
    /\ dlist.head # None =>
         /\ dlist.nodes[dlist.head].prev = None
         /\ Len(DListChain) = Len(dlist.nodes)
         /\ dlist.nodes[DListChain[Len(DListChain)]].next = None
    /\ \A n, m \in 1..Len(dlist.nodes) :
         dlist.nodes[n].next = m <=> dlist.nodes[m].prev = n

\* the list of the script: append(1), append(2), prepend(0)
C28_Witness ==
    /\ dlist.head = 3
    /\ dlist.nodes = <<[data |-> 1, prev |-> 3, next |-> 2],
                       [data |-> 2, prev |-> 1, next |-> None],
                       [data |-> 0, prev |-> None, next |-> 1]>>

\* ---------------------------------------------------------------- C29
\* C29: after any interleaving of append and prepend calls, the values met
\* from head along next are the prepended values, the latest first, followed
\* by the appended values in call order; print_backward prints the values
\* print_forward prints in the reverse order; both return, and on the empty
\* list both print "None" alone.
C29_ContentAndTraversals ==
    LET fwd == print_forward(dlist.nodes, dlist.head)
        bwd == print_backward(dlist.nodes, dlist.head)
        values == Reverse(dlist.prepended) \o dlist.appended
    IN  /\ fwd.done
        /\ bwd.done
        /\ fwd.out = Append([i \in 1..Len(values) |-> PrintedData(values[i])],
                            PrintedNone)
        /\ bwd.out = Append(Reverse(SubSeq(fwd.out, 1, Len(fwd.out) - 1)),
                            PrintedNone)
        /\ dlist.nodes = <<>> => fwd.out = <<PrintedNone>> /\ bwd.out = <<PrintedNone>>

\* print_backward on the list of two prepends and two appends
C29_Witness ==
    /\ dlist.prepended = <<1, 0>>
    /\ dlist.appended = <<2, 1>>
    /\ dlist.printed = <<PrintedData(1), PrintedData(2), PrintedData(1),
                         PrintedData(0), PrintedNone>>

=============================================================================
